---------------------------- MODULE Spec2Model ----------------------------
(***************************************************************************)
(* A model of wm (working memory for AI coding assistants): the knowledge  *)
(* store (state.rs), the checkpointed extraction pipeline (extract.rs),    *)
(* the compilation pipeline (compile.rs) and the command dispatch          *)
(* (main.rs).  Every command is a process; the project directory .wm/ is   *)
(* the shared state.  A file is a sequence of blocks, so that an           *)
(* interrupted or interleaved write is a state of the model.               *)
(***************************************************************************)
EXTENDS Integers, Sequences, FiniteSets, TLC

(***************************************************************************)
(* Bounds of the model.                                                    *)
(***************************************************************************)
\* blocks a non-empty document occupies in a file (one write call each)
NumBlocks == 2
\* longest transcript, in bytes
MaxTranscript == 2
\* longest item list of an aggregate of the round-trip check
MaxItems == 1
\* longest conflict list of an aggregate of the round-trip check
MaxConflicts == 1

Procs == {1, 2}

VARIABLES
    files,        \* name -> [ex: the name exists, data: its blocks]
    initialized,  \* the marker directory .wm/ exists
    transcript,   \* the transcript log: a sequence of bytes
    pc,           \* process -> where it stands in its command
    loc,          \* process -> the locals of its command
    wr,           \* process -> the fs::write in progress
    outcome,      \* process -> what its last command printed and returned
    hist          \* what the checks remember of the past

vars == <<files, initialized, transcript, pc, loc, wr, outcome, hist>>

(***************************************************************************)
(* types.rs: the data model and its serde attributes.  A JSON object is a  *)
(* function from its keys; an Option is a sequence of length 0 or 1.       *)
(***************************************************************************)
None == <<>>
Some(v) == <<v>>

EmptyObj == [k \in {} |-> 0]

\* a key that serde writes only when the Option is Some
OptField(k, o) == IF o = None THEN EmptyObj ELSE (k :> o[1])

\* #[serde(skip_serializing_if = "Option::is_none")]: a missing key reads as None
ReadOpt(j, k) == IF k \in DOMAIN j THEN Some(j[k]) ELSE None

ItemStatus == {"Confirmed", "Grounded", "Repeated", "Inferred", "Tentative", "Deprecated"}

ItemType == {"Decision", "Constraint", "Preference", "Pattern", "Fact", "Definition"}

\* #[serde(rename_all = "snake_case")] on ItemType
TypeToJson(s) ==
    CASE s = "Decision" -> "decision"
      [] s = "Constraint" -> "constraint"
      [] s = "Preference" -> "preference"
      [] s = "Pattern" -> "pattern"
      [] s = "Fact" -> "fact"
      [] s = "Definition" -> "definition"

TypeFromJson(j) ==
    IF \E s \in ItemType : TypeToJson(s) = j
    THEN Some(CHOOSE s \in ItemType : TypeToJson(s) = j)
    ELSE None

\* #[serde(rename_all = "snake_case")] on ItemStatus
StatusToJson(s) ==
    CASE s = "Confirmed" -> "confirmed"
      [] s = "Grounded" -> "grounded"
      [] s = "Repeated" -> "repeated"
      [] s = "Inferred" -> "inferred"
      [] s = "Tentative" -> "tentative"
      [] s = "Deprecated" -> "deprecated"

StatusFromJson(j) ==
    IF \E s \in ItemStatus : StatusToJson(s) = j
    THEN Some(CHOOSE s \in ItemStatus : StatusToJson(s) = j)
    ELSE None

EdgeKeys == {"applies_to", "uses", "grounded_in", "supersedes", "conflicts_with", "derived_from"}

\* Serialize for Edges: skip_serializing_if = "Vec::is_empty" on each list
EdgesToJson(e) == [k \in {x \in EdgeKeys : e[x] # <<>>} |-> e[k]]

\* an Edges whose derived_from is written but never read back
EdgesFromJson_dropped(j) ==
    [k \in EdgeKeys |-> IF k \in DOMAIN j /\ k # "derived_from" THEN j[k] ELSE <<>>]

\* Deserialize for Edges: #[serde(default)] on each list
EdgesFromJson(j) == [k \in EdgeKeys |-> IF k \in DOMAIN j THEN j[k] ELSE <<>>]

\* Serialize for Item
ItemToJson(it) ==
    ("id" :> it.id) @@ ("type" :> TypeToJson(it.item_type)) @@ ("status" :> StatusToJson(it.status))
    @@ ("text" :> it.text) @@ OptField("rationale", it.rationale)
    @@ ("edges" :> EdgesToJson(it.edges)) @@ ("strength" :> it.strength)
    @@ ("pinned" :> it.pinned) @@ ("created_at" :> it.created_at)
    @@ OptField("last_used_at", it.last_used_at)

ItemRequired == {"id", "type", "status", "text", "created_at"}

\* Deserialize for Item: edges, strength and pinned default when missing
ItemJsonOk(j) ==
    /\ ItemRequired \subseteq DOMAIN j
    /\ TypeFromJson(j["type"]) # None
    /\ StatusFromJson(j["status"]) # None

ItemFromJson(j) ==
    [id |-> j["id"], item_type |-> TypeFromJson(j["type"])[1],
     status |-> StatusFromJson(j["status"])[1],
     text |-> j["text"], rationale |-> ReadOpt(j, "rationale"),
     edges |-> IF "edges" \in DOMAIN j THEN EdgesFromJson(j["edges"])
               ELSE [k \in EdgeKeys |-> <<>>],
     strength |-> IF "strength" \in DOMAIN j THEN j["strength"] ELSE 0,
     pinned |-> IF "pinned" \in DOMAIN j THEN j["pinned"] ELSE FALSE,
     created_at |-> j["created_at"],
     last_used_at |-> ReadOpt(j, "last_used_at")]

\* Serialize / Deserialize for Conflict: three required fields
ConflictToJson(c) ==
    ("items" :> c.items) @@ ("reason" :> c.reason) @@ ("surfaced_at" :> c.surfaced_at)

ConflictJsonOk(j) == {"items", "reason", "surfaced_at"} \subseteq DOMAIN j

ConflictFromJson(j) ==
    [items |-> j["items"], reason |-> j["reason"], surfaced_at |-> j["surfaced_at"]]

\* Serialize / Deserialize for Checkpoint: both fields optional
CheckpointToJson(c) ==
    OptField("last_extraction", c.last_extraction)
    @@ OptField("transcript_position", c.transcript_position)

CheckpointFromJson(j) ==
    [last_extraction |-> ReadOpt(j, "last_extraction"),
     transcript_position |-> ReadOpt(j, "transcript_position")]

DefaultCheckpoint == [last_extraction |-> None, transcript_position |-> None]

\* Serialize for State
StateToJson(s) ==
    ("schema_version" :> s.schema_version) @@ ("project_id" :> s.project_id)
    @@ ("updated_at" :> s.updated_at)
    @@ ("checkpoint" :> CheckpointToJson(s.checkpoint))
    @@ ("items" :> [i \in 1..Len(s.items) |-> ItemToJson(s.items[i])])
    @@ ("conflicts" :> [i \in 1..Len(s.conflicts) |-> ConflictToJson(s.conflicts[i])])

\* Deserialize for State: checkpoint, items and conflicts default when missing
StateJsonOk(j) ==
    /\ {"schema_version", "project_id", "updated_at"} \subseteq DOMAIN j
    /\ "items" \in DOMAIN j =>
           \A i \in 1..Len(j["items"]) : ItemJsonOk(j["items"][i])
    /\ "conflicts" \in DOMAIN j =>
           \A i \in 1..Len(j["conflicts"]) : ConflictJsonOk(j["conflicts"][i])

StateFromJson(j) ==
    [schema_version |-> j["schema_version"], project_id |-> j["project_id"],
     updated_at |-> j["updated_at"],
     checkpoint |-> IF "checkpoint" \in DOMAIN j
                    THEN CheckpointFromJson(j["checkpoint"]) ELSE DefaultCheckpoint,
     items |-> IF "items" \in DOMAIN j
               THEN [i \in 1..Len(j["items"]) |-> ItemFromJson(j["items"][i])]
               ELSE <<>>,
     conflicts |-> IF "conflicts" \in DOMAIN j
                   THEN [i \in 1..Len(j["conflicts"]) |-> ConflictFromJson(j["conflicts"][i])]
                   ELSE <<>>]

\* impl Default for State; updated_at is Utc::now(), the time of the call
DefaultState(now) ==
    [schema_version |-> "0.1", project_id |-> "", updated_at |-> now,
     checkpoint |-> DefaultCheckpoint, items |-> <<>>, conflicts |-> <<>>]


(***************************************************************************)
(* The project directory.  A file is [ex, data]: data is its sequence of  *)
(* blocks <<document, block number>>; a String read from a file is its     *)
(* block sequence.  A hole is what a write past the end of a file leaves   *)
(* in between.                                                             *)
(***************************************************************************)
\* state.rs: const STATE_FILE
STATE_FILE == "state.json"
\* state.rs: const WORKING_SET_FILE
WORKING_SET_FILE == "working_set.md"
STATE_MD == "state.md"
CHECKPOINT_FILE == "checkpoint.json"

\* a write_state that writes the aggregate file in place
tmp_path_in_place == "state.json"

\* write_state: let tmp_path = wm_path(&format!("{}.tmp", STATE_FILE))
tmp_path == "state.json.tmp"

\* state.rs: const NODES_FILE
NODES_FILE == "nodes.json"
\* init.rs: create_default_config writes wm_path("config.yaml")
CONFIG_FILE == "config.yaml"

FileNames ==
    {STATE_FILE, "state.json.tmp", STATE_MD, CHECKPOINT_FILE, WORKING_SET_FILE,
     NODES_FILE, CONFIG_FILE}

Absent == [ex |-> FALSE, data |-> <<>>]
Hole == <<"hole", 0>>

\* the bytes of a non-empty document, as blocks
Blocks(doc) == [i \in 1..NumBlocks |-> <<doc, i>>]

\* the data is one whole document: every block of it, in order, and no other
IsWhole(data) ==
    /\ Len(data) = NumBlocks
    /\ \A i \in 1..NumBlocks : data[i][2] = i
    /\ \A i \in 1..NumBlocks : data[i][1] = data[1][1]

\* serde_json::from_str on a file's content: the document, when the text is whole
ParseJson(data) == IF IsWhole(data) THEN Some(data[1][1]) ELSE None

\* write(2) of one block at offset off (counted in blocks)
WriteAt(data, off, b) ==
    [i \in 1..(IF off + 1 > Len(data) THEN off + 1 ELSE Len(data)) |->
        IF i = off + 1 THEN b
        ELSE IF i <= Len(data) THEN data[i]
        ELSE Hole]

(***************************************************************************)
(* std::fs::write(path, content): File::create (open with O_CREAT and      *)
(* O_TRUNC), then write_all, block after block.  wr[p] is the call in      *)
(* progress: the descriptor fd follows its file through a rename, and is   *)
(* "orphan" once another file has been renamed over it.                    *)
(***************************************************************************)
NoWrite == [name |-> "none", buf |-> <<>>, off |-> 0, fd |-> "none",
            next |-> "idle", onfail |-> "propagate", err |-> "none"]

\* the caller's side of fs::write: what to write, where to go on when it is done,
\* and whether the caller propagates ("?") or drops ("let _ =") its error
FsWriteCall(name, buf, next, onfail, err) ==
    [name |-> name, buf |-> buf, off |-> 0, fd |-> "none",
     next |-> next, onfail |-> onfail, err |-> err]

\* main: Ok(_) => ExitCode::SUCCESS, Err(e) => { eprintln!("Error: {}", e); ExitCode::FAILURE }
main_exit(o, result) ==
    IF result = "Ok" THEN [o EXCEPT !.exit = "success", !.result = "Ok"]
    ELSE [o EXCEPT !.exit = "failure", !.result = result, !.stderr = Append(@, result)]

\* the command of p, having printed what o holds, returns `result` to main
ReturnWith(p, o, result) ==
    /\ pc' = [pc EXCEPT ![p] = "idle"]
    /\ outcome' = [outcome EXCEPT ![p] = main_exit(o, result)]

Return(p, result) == ReturnWith(p, outcome[p], result)

\* remembered when an fs::write has written all of its content: the text of
\* state.md
Written(h, w) == IF w.name = "state.md" THEN [h EXCEPT !.knowledge = w.buf] ELSE h

\* File::create succeeds: the file exists and is empty
fs_write_open(p) ==
    /\ pc[p] = "fs_open"
    /\ files' = [files EXCEPT ![wr[p].name] = [ex |-> TRUE, data |-> <<>>]]
    /\ IF wr[p].buf = <<>>
       THEN /\ pc' = [pc EXCEPT ![p] = wr[p].next]
            /\ wr' = [wr EXCEPT ![p] = NoWrite]
            /\ hist' = Written(hist, wr[p])
       ELSE /\ pc' = [pc EXCEPT ![p] = "fs_write"]
            /\ wr' = [wr EXCEPT ![p].fd = wr[p].name]
            /\ hist' = hist
    /\ UNCHANGED <<initialized, transcript, loc, outcome>>

\* write_all: one more block, at the descriptor's offset
fs_write_block(p) ==
    /\ pc[p] = "fs_write"
    /\ LET w == wr[p]
           done == w.off + 1 = Len(w.buf)
       IN /\ files' = IF w.fd \in FileNames
                      THEN [files EXCEPT ![w.fd].data = WriteAt(@, w.off, w.buf[w.off + 1])]
                      ELSE files
          /\ IF done
             THEN /\ pc' = [pc EXCEPT ![p] = w.next]
                  /\ wr' = [wr EXCEPT ![p] = NoWrite]
                  /\ hist' = Written(hist, w)
             ELSE /\ pc' = pc
                  /\ wr' = [wr EXCEPT ![p].off = w.off + 1]
                  /\ hist' = hist
    /\ UNCHANGED <<initialized, transcript, loc, outcome>>

\* File::create or a write fails (permission, disk full, I/O error): the file is
\* left as it is at that point, and fs::write returns the error
fs_write_fail(p) ==
    /\ pc[p] \in {"fs_open", "fs_write"}
    /\ wr' = [wr EXCEPT ![p] = NoWrite]
    /\ loc' = [loc EXCEPT ![p].hit = IF @ = "none" THEN wr[p].err ELSE @]
    /\ IF wr[p].onfail = "ignore"
       THEN /\ pc' = [pc EXCEPT ![p] = wr[p].next]
            /\ outcome' = outcome
       ELSE Return(p, wr[p].err)
    /\ UNCHANGED <<files, initialized, transcript, hist>>

\* fs::rename(from, to): the name `to` now holds the file of `from`; open
\* descriptors stay with their files
RenameFds(w, from, to) ==
    [q \in Procs |->
        IF w[q].fd = from THEN [w[q] EXCEPT !.fd = to]
        ELSE IF w[q].fd = to THEN [w[q] EXCEPT !.fd = "orphan"]
        ELSE w[q]]

RenameFiles(f, from, to) ==
    IF from = to THEN f
    ELSE [f EXCEPT ![to] = f[from], ![from] = Absent]


(***************************************************************************)
(* The locals of a command, what it has printed and returned, and what the *)
(* checks remember.                                                        *)
(***************************************************************************)
NoRet == [kind |-> "none", val |-> 0]

\* cmd: the command; arg, ret: the argument of write_state and the result of
\* read_state; sid: the session id given to hook compile; cur: the state.md read;
\* cp: the checkpoint read; slice: the transcript read; new: the text the oracle
\* call gave; called: the oracle was spawned; hit: the first error a call of the
\* command returned; wm_disabled: WM_DISABLED is set in this process; snap: the
\* files as they were when the command started; read_end: the length of the
\* transcript when the slice was read; at: where the process died; grown: the
\* transcript grew since the extraction command started; follows: the command
\* started right after an extraction that consumed a slice with success, the
\* transcript as that extraction found it; env: WM_DISABLED in the environment
\* the command was started with; origin: who started the process ("user", or
\* "background" for the child of run_background, or "oracle" and "scrubbed" for
\* a descendant of an oracle call with and without the environment of the call)
NoLoc == [cmd |-> "none", arg |-> 0, ret |-> NoRet, sid |-> "none", cur |-> <<>>,
          cp |-> 0, slice |-> <<>>, new |-> <<>>, called |-> FALSE, hit |-> "none",
          wm_disabled |-> FALSE, snap |-> <<>>, read_end |-> 0, at |-> <<"none", "none">>,
          grown |-> FALSE, follows |-> FALSE, env |-> "unset", origin |-> "user"]

NoOutcome == [exit |-> "none", result |-> "none", stdout |-> <<>>, stderr |-> <<>>]

Running == [exit |-> "running", result |-> "none", stdout |-> <<>>, stderr |-> <<>>]

\* committed: the aggregate of the last write_state that renamed; interrupted,
\* crashedAt: the write_state a crash cut short and where; knowledge: the text
\* of the last completed write of state.md; pipeline: the pipeline whose
\* commands a behaviour of SpecRuns runs
NoHist == [committed |-> None, interrupted |-> None, crashedAt |-> "none",
           knowledge |-> <<>>, pipeline |-> "any"]

Times == {1, 2}

\* Utc::now() of a command of the engine (the instant is written, never compared)
Now == CHOOSE now \in Times : TRUE

(***************************************************************************)
(* state.rs: write_state and read_state.                                   *)
(***************************************************************************)
\* write_state, up to fs::write(&tmp_path, &content): the content is the pretty
\* JSON of the state
write_state_begin(p, s) ==
    /\ pc[p] = "idle"
    /\ loc' = [loc EXCEPT ![p] = [NoLoc EXCEPT !.cmd = "write_state", !.arg = s]]
    /\ outcome' = [outcome EXCEPT ![p] = Running]
    /\ wr' = [wr EXCEPT ![p] =
                 FsWriteCall(tmp_path, Blocks(StateToJson(s)), "ws_rename", "propagate", "io")]
    /\ pc' = [pc EXCEPT ![p] = "fs_open"]
    /\ UNCHANGED <<files, initialized, transcript, hist>>

\* write_state: fs::rename(&tmp_path, &path)?; Ok(())
\* (init::run goes on to its next write when write_state returned Ok)
write_state_rename(p) ==
    /\ pc[p] = "ws_rename"
    /\ IF files[tmp_path].ex
       THEN /\ files' = RenameFiles(files, tmp_path, STATE_FILE)
            /\ wr' = RenameFds(wr, tmp_path, STATE_FILE)
            /\ hist' = [hist EXCEPT !.committed = Some(loc[p].arg)]
            /\ IF loc[p].cmd = "init"
               THEN /\ pc' = [pc EXCEPT ![p] = "init_nodes"]
                    /\ outcome' = outcome
               ELSE Return(p, "Ok")
            /\ loc' = loc
       ELSE /\ UNCHANGED <<files, wr, hist>>
            /\ loc' = [loc EXCEPT ![p].hit = IF @ = "none" THEN "io" ELSE @]
            /\ Return(p, "io")
    /\ UNCHANGED <<initialized, transcript>>

\* a read_state that takes the default state for a content that is not a State
read_state_value_lenient(f, now) ==
    IF ~f.ex THEN [kind |-> "ok", val |-> DefaultState(now)]
    ELSE IF ParseJson(f.data) = None THEN [kind |-> "ok", val |-> DefaultState(now)]
    ELSE IF ~StateJsonOk(ParseJson(f.data)[1]) THEN [kind |-> "ok", val |-> DefaultState(now)]
    ELSE [kind |-> "ok", val |-> StateFromJson(ParseJson(f.data)[1])]

\* read_state: the parsed file; the default state when there is no file; an error
\* when the content is not a State
read_state_value(f, now) ==
    IF ~f.ex THEN [kind |-> "ok", val |-> DefaultState(now)]
    ELSE IF ParseJson(f.data) = None THEN [kind |-> "err", val |-> 0]
    ELSE IF ~StateJsonOk(ParseJson(f.data)[1]) THEN [kind |-> "err", val |-> 0]
    ELSE [kind |-> "ok", val |-> StateFromJson(ParseJson(f.data)[1])]

read_state(p) ==
    /\ pc[p] = "idle"
    /\ \E now \in Times :
          loc' = [loc EXCEPT ![p] =
                     [NoLoc EXCEPT !.cmd = "read_state",
                                   !.ret = read_state_value(files[STATE_FILE], now)]]
    /\ outcome' = [outcome EXCEPT ![p] = Running]
    /\ UNCHANGED <<files, initialized, transcript, pc, wr, hist>>

\* where process p stands: the step it is about to take, or the fs::write it is in
CrashPoint(p) ==
    IF pc[p] \in {"fs_open", "fs_write"} THEN <<"fs::write", wr[p].name>>
    ELSE <<pc[p], "none">>

\* the process dies where it stands: its descriptors are closed, the files stay
crash(p) ==
    /\ pc[p] # "idle"
    /\ pc' = [pc EXCEPT ![p] = "idle"]
    /\ wr' = [wr EXCEPT ![p] = NoWrite]
    /\ outcome' = [outcome EXCEPT ![p].exit = "crashed"]
    /\ hist' = IF loc[p].cmd = "write_state"
               THEN [hist EXCEPT !.crashedAt = pc[p], !.interrupted = Some(loc[p].arg)]
               ELSE hist
    /\ loc' = [loc EXCEPT ![p].at = CrashPoint(p)]
    /\ UNCHANGED <<files, initialized, transcript>>

(***************************************************************************)
(* The aggregates the store is checked with.                               *)
(***************************************************************************)
\* the bytes write_state commits for the aggregate s
Committed(s) == [ex |-> TRUE, data |-> Blocks(StateToJson(s))]

\* what init::run writes: a default state with the project's id, at time t
InitialState(t) == [DefaultState(t) EXCEPT !.project_id = "proj_1"]

SmallAggs == {InitialState(t) : t \in Times}

NoEdges == [k \in EdgeKeys |-> <<>>]

EdgeShapes ==
    {NoEdges,
     [NoEdges EXCEPT !["applies_to"] = <<"domain:auth">>],
     [k \in EdgeKeys |-> <<"item:1", "item:2">>]}

\* an item of each status, with each shape of edges; the optional fields are
\* absent on the items without edges and present on the others
SampleItems ==
    {[id |-> 0, item_type |-> "Fact", status |-> st, text |-> "t",
      rationale |-> IF e = NoEdges THEN None ELSE Some("why"),
      edges |-> e, strength |-> 1, pinned |-> TRUE, created_at |-> 1,
      last_used_at |-> IF e = NoEdges THEN None ELSE Some(2)]
        : st \in ItemStatus, e \in EdgeShapes}

SampleConflict == [items |-> <<1, 2>>, reason |-> "r", surfaced_at |-> 1]

SeqsUpTo(S, n) == UNION {[1..k -> S] : k \in 0..n}

\* item ids are unique within a State: the i-th item has id i
WithIds(items) == [i \in 1..Len(items) |-> [items[i] EXCEPT !.id = i]]

Aggregates ==
    {[InitialState(1) EXCEPT !.checkpoint = c, !.items = WithIds(its), !.conflicts = cs]
        : c \in {DefaultCheckpoint,
                 [last_extraction |-> Some(1), transcript_position |-> Some(2)]},
          its \in SeqsUpTo(SampleItems, MaxItems),
          cs \in SeqsUpTo({SampleConflict}, MaxConflicts)}

(***************************************************************************)
(* SpecRoundTrip: one write_state of any aggregate on a fresh project, and *)
(* read_state before and after it.                                         *)
(***************************************************************************)
InitStore ==
    /\ files = [n \in FileNames |-> Absent]
    /\ initialized = TRUE
    /\ transcript = <<>>
    /\ pc = [p \in Procs |-> "idle"]
    /\ loc = [p \in Procs |-> NoLoc]
    /\ wr = [p \in Procs |-> NoWrite]
    /\ outcome = [p \in Procs |-> NoOutcome]
    /\ hist = NoHist

NextRoundTrip ==
    \/ /\ ~files[STATE_FILE].ex
       /\ ~files[tmp_path].ex
       /\ pc[1] = "idle"
       /\ \E s \in Aggregates : write_state_begin(1, s)
    \/ fs_write_open(1)
    \/ fs_write_block(1)
    \/ write_state_rename(1)
    \/ read_state(1)

SpecRoundTrip == InitStore /\ [][NextRoundTrip]_vars

(***************************************************************************)
(* SpecStore: one process writes and reads the aggregate again and again,  *)
(* and may fail or die at any step.                                        *)
(***************************************************************************)
StoreOps(p) ==
    \/ \E s \in SmallAggs : write_state_begin(p, s)
    \/ fs_write_open(p)
    \/ fs_write_block(p)
    \/ write_state_rename(p)
    \/ read_state(p)

NextStore == StoreOps(1) \/ fs_write_fail(1) \/ crash(1)

SpecStore == InitStore /\ [][NextStore]_vars

\* SpecStoreConc: two processes write and read at once; none fails, none dies
NextStoreConc == \E p \in Procs : StoreOps(p)

SpecStoreConc == InitStore /\ [][NextStoreConc]_vars


(***************************************************************************)
(* Text.  A String is a sequence of blocks; the texts the oracle can       *)
(* return are the empty text, a text of white space only, and two texts    *)
(* of knowledge.                                                           *)
(***************************************************************************)
OracleTexts == {"", "ws", "k1", "k2"}

Text(t) == IF t = "" THEN <<>> ELSE Blocks(t)

\* str.trim().is_empty()
IsBlank(str) == \A i \in 1..Len(str) : str[i][1] = "ws"

\* std::fs::read_to_string(path).unwrap_or_default()
ReadOrDefault(f) == IF f.ex THEN f.data ELSE <<>>

\* a line printed on stdout or stderr
Line(kind, body) == [kind |-> kind, body |-> body]

println(o, kind, body) == [o EXCEPT !.stdout = Append(@, Line(kind, body))]

(***************************************************************************)
(* The transcript: an append-only log of bytes, "nl" the line feed.        *)
(***************************************************************************)
Bytes == {"a", "nl"}

\* the log writer appends one byte of B
append_transcript(B) ==
    /\ Len(transcript) < MaxTranscript
    /\ \E b \in B : transcript' = Append(transcript, b)
    /\ loc' = [p \in Procs |->
                  IF loc[p].cmd \in {"extract", "hook_extract"}
                  THEN [loc[p] EXCEPT !.grown = TRUE] ELSE loc[p]]
    /\ UNCHANGED <<files, initialized, pc, wr, outcome, hist>>

\* read_transcript_since_position: seek to the position, then every line to the
\* end of the file, each followed by '\n'
read_transcript_since_position(tr, position) ==
    LET rest == SubSeq(tr, position + 1, Len(tr))
    IN IF rest = <<>> THEN <<>>
       ELSE IF rest[Len(rest)] = "nl" THEN rest
       ELSE Append(rest, "nl")

\* find_transcript: an explicit path must exist; without one, the environment
\* variable or the newest transcript under ~/.claude/projects is taken, if any
TranscriptArgs == {"none", "transcript", "missing"}

find_transcript(explicit_path, discovered) ==
    IF explicit_path = "transcript" THEN "Ok"
    ELSE IF explicit_path = "missing" THEN "TranscriptNotFound"
    ELSE IF discovered THEN "Ok"
    ELSE "TranscriptNotFound"

(***************************************************************************)
(* The checkpoint file.                                                    *)
(***************************************************************************)
\* write_checkpoint: the JSON written, for a position and the time of the call
checkpoint_json(position, now) ==
    ("transcript_position" :> position) @@ ("last_extraction" :> now)

\* read_checkpoint: the position recorded, 0 when the file is missing, is not
\* JSON or has no transcript_position
read_checkpoint(f) ==
    IF ~f.ex THEN 0
    ELSE IF ParseJson(f.data) = None THEN 0
    ELSE IF "transcript_position" \notin DOMAIN ParseJson(f.data)[1] THEN 0
    ELSE ParseJson(f.data)[1]["transcript_position"]

(***************************************************************************)
(* The oracle: the claude CLI, run as a subprocess.  What it can do: fail  *)
(* to start, fail on its stdin, fail while waited for, exit non-zero,      *)
(* print something that is not JSON, print JSON without a string "result", *)
(* or print JSON whose "result" is a text.                                 *)
(***************************************************************************)
OracleErrors ==
    {"OracleSpawn", "OracleStdin", "OracleWait", "OracleExit", "OracleNotJson",
     "OracleNoResult"}

OracleResults ==
    {[err |-> e, text |-> <<>>] : e \in OracleErrors \ {"OracleSpawn"}}
    \cup {[err |-> "Ok", text |-> Text(t)] : t \in OracleTexts}

\* std::env::remove_var("WM_DISABLED") is reached once wait_with_output returned
\* Ok: not after a failure of the stdin write or of the wait
env_after_call(err) == err \in {"OracleStdin", "OracleWait"}

\* every caller returns the error of a failed oracle call
on_oracle_error_propagate(cmd) == "propagate"

\* every caller takes the empty text for the result of a failed oracle call
on_oracle_error_degrade(cmd) == "degrade"

\* the answer of a command to a failed oracle call: compile::run_hook takes the
\* empty text for the result; every other caller returns the error ("?")
on_oracle_error(cmd) == IF cmd = "hook_compile" THEN "degrade" ELSE "propagate"

(***************************************************************************)
(* main.rs and the entry points of extract.rs and compile.rs.  A command   *)
(* starts in main: with WM_DISABLED in its environment it exits at once.   *)
(***************************************************************************)
Sessions == {"s1", "s2"}

\* WM_DISABLED in the environment of a command: not there, there with the empty
\* string, there with "1", there with bytes that are not valid Unicode
EnvValues == {"unset", "empty", "1", "not_unicode"}

\* the variable is present in the environment
EnvPresent(v) == v # "unset"

\* std::env::var("WM_DISABLED").is_ok(): the variable is there and its value is
\* valid Unicode
var_is_ok(v) == v \in {"empty", "1"}

\* the process is at the entry of main: between two commands of a user, or
\* just spawned by another process
AtMain(p) == pc[p] \in {"idle", "spawned"}

\* the command cmd starts in process p
\* the last command of p was an extraction that gave a slice to the oracle and
\* returned Ok, and the transcript has not grown since that command started
Consumed(p) ==
    /\ pc[p] = "idle"
    /\ loc[p].cmd \in {"extract", "hook_extract"}
    /\ outcome[p].exit = "success"
    /\ loc[p].called
    /\ ~loc[p].grown

BeginLoc(p, cmd, sid, env, hit) ==
    [NoLoc EXCEPT !.cmd = cmd, !.sid = sid, !.snap = files, !.hit = hit,
                  !.follows = Consumed(p), !.env = env,
                  !.origin = IF pc[p] = "spawned" THEN loc[p].origin ELSE "user"]

Begin(p, cmd, sid, env, hit) ==
    loc' = [loc EXCEPT ![p] = BeginLoc(p, cmd, sid, env, hit)]

\* the first steps of extract::run and extract::run_hook: nothing is done without
\* .wm/ (an error for run, silence for run_hook), then find_transcript
\* an extraction entry without the is_initialized check
extract_entry_unchecked(cmd, explicit_path, discovered, env) ==
    IF var_is_ok(env) THEN "Disabled" ELSE find_transcript(explicit_path, discovered)

extract_entry(cmd, explicit_path, discovered, env) ==
    IF var_is_ok(env) THEN "Disabled"
    ELSE IF ~initialized THEN (IF cmd = "extract" THEN "NotInitialized" ELSE "Silent")
    ELSE find_transcript(explicit_path, discovered)

EntryError(entry) == IF entry \in {"Disabled", "Silent", "Ok"} THEN "none" ELSE entry

\* main: if std::env::var("WM_DISABLED").is_ok() { return ExitCode::SUCCESS; }
main_disabled(p) ==
    /\ pc' = [pc EXCEPT ![p] = "idle"]
    /\ outcome' = [outcome EXCEPT ![p] = [Running EXCEPT !.exit = "success"]]

\* wm extract [--transcript <path>]: extract::run, up to extract_from_transcript
start_extract(p, explicit_path, discovered, env) ==
    /\ AtMain(p)
    /\ LET entry == extract_entry("extract", explicit_path, discovered, env)
       IN /\ Begin(p, "extract", "none", env, EntryError(entry))
          /\ IF entry = "Disabled" THEN main_disabled(p)
             ELSE IF entry # "Ok" THEN ReturnWith(p, Running, entry)
             ELSE /\ pc' = [pc EXCEPT ![p] = "ex_read_state"]
                  /\ outcome' = [outcome EXCEPT ![p] = Running]
    /\ UNCHANGED <<files, initialized, transcript, wr, hist>>

\* wm hook extract: extract::run_hook, up to extract_from_transcript
start_hook_extract(p, discovered, env) ==
    /\ AtMain(p)
    /\ LET entry == extract_entry("hook_extract", "none", discovered, env)
       IN /\ Begin(p, "hook_extract", "none", env, EntryError(entry))
          /\ IF entry = "Disabled" THEN main_disabled(p)
             ELSE IF entry = "Silent" THEN ReturnWith(p, Running, "Ok")
             ELSE IF entry # "Ok" THEN ReturnWith(p, Running, entry)
             ELSE /\ pc' = [pc EXCEPT ![p] = "ex_read_state"]
                  /\ outcome' = [outcome EXCEPT ![p] = Running]
    /\ UNCHANGED <<files, initialized, transcript, wr, hist>>

\* wm compile: compile::run, up to the read of state.md
start_compile(p, env) ==
    /\ AtMain(p)
    /\ Begin(p, "compile", "none", env,
             IF ~var_is_ok(env) /\ ~initialized THEN "NotInitialized" ELSE "none")
    /\ IF var_is_ok(env) THEN main_disabled(p)
       ELSE IF ~initialized THEN ReturnWith(p, Running, "NotInitialized")
       ELSE /\ pc' = [pc EXCEPT ![p] = "co_read_state"]
            /\ outcome' = [outcome EXCEPT ![p] = Running]
    /\ UNCHANGED <<files, initialized, transcript, wr, hist>>

\* wm hook compile --session-id <sid>: compile::run_hook, up to the read of
\* state.md
start_hook_compile(p, sid, env) ==
    /\ AtMain(p)
    /\ Begin(p, "hook_compile", sid, env, "none")
    /\ IF var_is_ok(env) THEN main_disabled(p)
       ELSE IF ~initialized THEN ReturnWith(p, Running, "Ok")
       ELSE /\ pc' = [pc EXCEPT ![p] = "co_read_state"]
            /\ outcome' = [outcome EXCEPT ![p] = Running]
    /\ UNCHANGED <<files, initialized, transcript, wr, hist>>

(***************************************************************************)
(* extract.rs: extract_from_transcript.                                    *)
(***************************************************************************)
\* let current_state = read_to_string(wm_path("state.md")).unwrap_or_default()
extract_read_state(p) ==
    /\ pc[p] = "ex_read_state"
    /\ loc' = [loc EXCEPT ![p].cur = ReadOrDefault(files[STATE_MD])]
    /\ pc' = [pc EXCEPT ![p] = "ex_read_cp"]
    /\ UNCHANGED <<files, initialized, transcript, wr, outcome, hist>>

\* let checkpoint_pos = read_checkpoint()
extract_read_checkpoint(p) ==
    /\ pc[p] = "ex_read_cp"
    /\ loc' = [loc EXCEPT ![p].cp = read_checkpoint(files[CHECKPOINT_FILE])]
    /\ pc' = [pc EXCEPT ![p] = "ex_read_tr"]
    /\ UNCHANGED <<files, initialized, transcript, wr, outcome, hist>>

\* a slice with nothing to extract from
is_empty_never(slice) == FALSE

\* new_transcript.is_empty()
is_empty(slice) == slice = <<>>

\* let new_transcript = read_transcript_since_position(..)?; if it is empty,
\* print "No new transcript content to extract from." and return Ok(())
extract_read_transcript(p) ==
    /\ pc[p] = "ex_read_tr"
    /\ LET slice == read_transcript_since_position(transcript, loc[p].cp)
       IN /\ loc' = [loc EXCEPT ![p].slice = slice, ![p].read_end = Len(transcript)]
          /\ IF is_empty(slice)
             THEN ReturnWith(p, println(outcome[p], "text", "No new transcript content"), "Ok")
             ELSE /\ pc' = [pc EXCEPT ![p] = "ex_spawn"]
                  /\ outcome' = outcome
    /\ UNCHANGED <<files, initialized, transcript, wr, hist>>

\* read_transcript_since_position fails to open, seek or read the transcript
extract_read_transcript_fail(p) ==
    /\ pc[p] = "ex_read_tr"
    /\ loc' = [loc EXCEPT ![p].hit = "TranscriptIO"]
    /\ Return(p, "TranscriptIO")
    /\ UNCHANGED <<files, initialized, transcript, wr, hist>>

\* call_generative_extraction: set_var("WM_DISABLED", "1"), then the spawn
extract_oracle_spawn(p) ==
    /\ pc[p] = "ex_spawn"
    /\ loc' = [loc EXCEPT ![p].wm_disabled = TRUE, ![p].called = TRUE]
    /\ pc' = [pc EXCEPT ![p] = "ex_wait"]
    /\ UNCHANGED <<files, initialized, transcript, wr, outcome, hist>>

\* call_generative_extraction: the spawn fails
extract_oracle_spawn_fail(p) ==
    /\ pc[p] = "ex_spawn"
    /\ loc' = [loc EXCEPT ![p].wm_disabled = TRUE, ![p].hit = "OracleSpawn"]
    /\ Return(p, "OracleSpawn")
    /\ UNCHANGED <<files, initialized, transcript, wr, hist>>

\* call_generative_extraction returns r; on Ok(new_state) the run goes on to
\* std::fs::write(wm_path("state.md"), &new_state)
extract_oracle_return(p, r) ==
    /\ pc[p] = "ex_wait"
    /\ loc' = [loc EXCEPT ![p].wm_disabled = env_after_call(r.err), ![p].new = r.text,
                          ![p].hit = IF r.err = "Ok" THEN @ ELSE r.err]
    /\ IF r.err # "Ok"
       THEN /\ Return(p, r.err)
            /\ wr' = wr
       ELSE /\ pc' = [pc EXCEPT ![p] = "fs_open"]
            /\ wr' = [wr EXCEPT ![p] =
                         FsWriteCall(STATE_MD, r.text, "ex_metadata", "propagate", "StateWrite")]
            /\ outcome' = outcome
    /\ UNCHANGED <<files, initialized, transcript, hist>>

\* the checkpoint is written one byte past the end of the transcript
checkpoint_position_ahead(checkpoint_pos, slice, len) == len + 1

\* the checkpoint is written again with the position the run read from it
checkpoint_position_stale(checkpoint_pos, slice, len) == checkpoint_pos

\* the position written to the checkpoint: the length of the transcript when its
\* metadata is read
checkpoint_position(checkpoint_pos, slice, len) == len

\* let metadata = std::fs::metadata(transcript_path)?;
\* write_checkpoint(metadata.len())?
extract_metadata(p) ==
    /\ pc[p] = "ex_metadata"
    /\ wr' = [wr EXCEPT ![p] =
                 FsWriteCall(CHECKPOINT_FILE,
                             Blocks(checkpoint_json(
                                 checkpoint_position(loc[p].cp, loc[p].slice, Len(transcript)),
                                 Now)),
                             "ex_done", "propagate", "CheckpointWrite")]
    /\ pc' = [pc EXCEPT ![p] = "fs_open"]
    /\ UNCHANGED <<files, initialized, transcript, loc, outcome, hist>>

\* std::fs::metadata(transcript_path) fails
extract_metadata_fail(p) ==
    /\ pc[p] = "ex_metadata"
    /\ loc' = [loc EXCEPT ![p].hit = "MetadataIO"]
    /\ Return(p, "MetadataIO")
    /\ UNCHANGED <<files, initialized, transcript, wr, hist>>

\* println!("State updated ..."); Ok(())
extract_done(p) ==
    /\ pc[p] = "ex_done"
    /\ ReturnWith(p, println(outcome[p], "text", "State updated"), "Ok")
    /\ UNCHANGED <<files, initialized, transcript, loc, wr, hist>>

(***************************************************************************)
(* compile.rs: run and run_hook.                                           *)
(***************************************************************************)
IsHook(cmd) == cmd \in {"hook_compile", "hook_extract"}

\* HookResponse { additional_context }, serialized: the field is left out when
\* it is None (skip_serializing_if, rename_all = "camelCase")
HookResponseJson(additional_context) == OptField("additionalContext", additional_context)

\* additional_context: if working_set.trim().is_empty() { None } else { Some(working_set) }
additional_context(working_set) ==
    IF IsBlank(working_set) THEN None ELSE Some(working_set)

\* state::write_working_set(content): the path written, for the session id the
\* hook was given (run_hook does not pass it on)
\* a compilation that writes its result over the knowledge
working_set_path_knowledge(sid) == STATE_MD

working_set_path(sid) == WORKING_SET_FILE

\* let state = read_to_string(wm_path("state.md")).unwrap_or_default(); with no
\* knowledge, run prints a hint and run_hook prints the empty response
compile_read_state(p) ==
    /\ pc[p] = "co_read_state"
    /\ LET state == ReadOrDefault(files[STATE_MD])
       IN /\ loc' = [loc EXCEPT ![p].cur = state]
          /\ IF IsBlank(state)
             THEN IF loc[p].cmd = "hook_compile"
                  THEN ReturnWith(p, println(outcome[p], "json", HookResponseJson(None)), "Ok")
                  ELSE ReturnWith(p, println(outcome[p], "text", "No knowledge in state.md yet"), "Ok")
             ELSE /\ pc' = [pc EXCEPT ![p] = "co_spawn"]
                  /\ outcome' = outcome
    /\ UNCHANGED <<files, initialized, transcript, wr, hist>>

\* after compile_with_llm: state::write_working_set(&working_set); run returns
\* its error, run_hook drops it ("let _ =")
compile_write(p, working_set) ==
    /\ pc' = [pc EXCEPT ![p] = "fs_open"]
    /\ wr' = [wr EXCEPT ![p] =
                 FsWriteCall(working_set_path(loc[p].sid), working_set, "co_done",
                             IF loc[p].cmd = "hook_compile" THEN "ignore" ELSE "propagate",
                             "WorkingSetWrite")]
    /\ outcome' = outcome

\* compile_with_llm: set_var("WM_DISABLED", "1"), then the spawn
compile_oracle_spawn(p) ==
    /\ pc[p] = "co_spawn"
    /\ loc' = [loc EXCEPT ![p].wm_disabled = TRUE, ![p].called = TRUE]
    /\ pc' = [pc EXCEPT ![p] = "co_wait"]
    /\ UNCHANGED <<files, initialized, transcript, wr, outcome, hist>>

\* compile_with_llm: the spawn fails
compile_oracle_spawn_fail(p) ==
    /\ pc[p] = "co_spawn"
    /\ loc' = [loc EXCEPT ![p].wm_disabled = TRUE, ![p].new = <<>>,
                          ![p].hit = "OracleSpawn"]
    /\ IF on_oracle_error(loc[p].cmd) = "propagate"
       THEN /\ Return(p, "OracleSpawn")
            /\ wr' = wr
       ELSE compile_write(p, <<>>)
    /\ UNCHANGED <<files, initialized, transcript, hist>>

\* compile_with_llm returns r
compile_oracle_return(p, r) ==
    /\ pc[p] = "co_wait"
    /\ loc' = [loc EXCEPT ![p].wm_disabled = env_after_call(r.err), ![p].new = r.text,
                          ![p].hit = IF r.err = "Ok" THEN @ ELSE r.err]
    /\ IF r.err # "Ok" /\ on_oracle_error(loc[p].cmd) = "propagate"
       THEN /\ Return(p, r.err)
            /\ wr' = wr
       ELSE compile_write(p, r.text)
    /\ UNCHANGED <<files, initialized, transcript, hist>>

\* run: println!("Compiled working set ..."); Ok(())
\* run_hook: println!("{}", json) of the response; Ok(())
compile_done(p) ==
    /\ pc[p] = "co_done"
    /\ IF loc[p].cmd = "hook_compile"
       THEN ReturnWith(p, println(outcome[p], "json",
                                  HookResponseJson(additional_context(loc[p].new))), "Ok")
       ELSE ReturnWith(p, println(outcome[p], "text", "Compiled working set"), "Ok")
    /\ UNCHANGED <<files, initialized, transcript, loc, wr, hist>>

(***************************************************************************)
(* SpecRuns: commands run one after the other while the transcript grows   *)
(* by whole lines; a command may fail at any I/O step or die.  The project *)
(* is either not initialized or as init::run leaves it.                    *)
(***************************************************************************)
\* init::run: state.json and the first working_set.md
AfterInit ==
    [n \in FileNames |->
        CASE n = STATE_FILE -> Committed(InitialState(1))
          [] n = WORKING_SET_FILE -> [ex |-> TRUE, data |-> Text("w0")]
          [] n = NODES_FILE -> [ex |-> TRUE, data |-> Blocks("nodes")]
          [] n = CONFIG_FILE -> [ex |-> TRUE, data |-> Blocks("config")]
          [] OTHER -> Absent]

\* every content an extraction can leave in state.md: none, and each text the
\* oracle can return, written whole or up to any block
KnowledgeFiles ==
    {Absent} \cup
    {[ex |-> TRUE, data |-> SubSeq(Text(t[1]), 1, t[2])] :
        t \in {x \in OracleTexts \X (0..NumBlocks) : x[2] <= Len(Text(x[1]))}}

\* Extraction never reads or writes working_set.md, and compilation only reads
\* state.md: a behaviour runs the commands of one pipeline, compilation
\* starting from any state.md that extraction can leave.
InitEngine ==
    /\ initialized \in BOOLEAN
    /\ \E pl \in {"extract", "compile"}, k \in KnowledgeFiles :
          /\ hist = [NoHist EXCEPT !.pipeline = pl, !.knowledge = ReadOrDefault(k)]
          /\ files = IF ~initialized THEN [n \in FileNames |-> Absent]
                     ELSE IF pl = "compile" THEN [AfterInit EXCEPT ![STATE_MD] = k]
                     ELSE AfterInit
          /\ (pl = "extract" \/ ~initialized) => k = Absent
    /\ transcript = <<>>
    /\ pc = [p \in Procs |-> "idle"]
    /\ loc = [p \in Procs |-> NoLoc]
    /\ wr = [p \in Procs |-> NoWrite]
    /\ outcome = [p \in Procs |-> NoOutcome]

\* the environments the commands of SpecRuns are started with
RunEnvs == {"unset", "1"}

ExtractStart(p, Envs) ==
    \/ \E path \in TranscriptArgs, discovered \in BOOLEAN, env \in Envs :
          start_extract(p, path, discovered, env)
    \/ \E discovered \in BOOLEAN, env \in Envs :
          start_hook_extract(p, discovered, env)

ExtractBody(p, Results) ==
    \/ extract_read_state(p)
    \/ extract_read_checkpoint(p)
    \/ extract_read_transcript(p)
    \/ extract_read_transcript_fail(p)
    \/ extract_oracle_spawn(p)
    \/ extract_oracle_spawn_fail(p)
    \/ \E r \in Results : extract_oracle_return(p, r)
    \/ extract_metadata(p)
    \/ extract_metadata_fail(p)
    \/ extract_done(p)

ExtractStep(p) == ExtractStart(p, RunEnvs) \/ ExtractBody(p, OracleResults)

CompileStart(p, Envs) ==
    \/ \E env \in Envs : start_compile(p, env)
    \/ \E sid \in Sessions, env \in Envs : start_hook_compile(p, sid, env)

CompileBody(p, Results) ==
    \/ compile_read_state(p)
    \/ compile_oracle_spawn(p)
    \/ compile_oracle_spawn_fail(p)
    \/ \E r \in Results : compile_oracle_return(p, r)
    \/ compile_done(p)

CompileStep(p) == CompileStart(p, RunEnvs) \/ CompileBody(p, OracleResults)

FsStep(p) == fs_write_open(p) \/ fs_write_block(p) \/ fs_write_fail(p)

NextRuns ==
    \/ hist.pipeline = "extract" /\ ExtractStep(1)
    \/ hist.pipeline = "extract" /\ append_transcript({"nl"})
    \/ hist.pipeline = "compile" /\ CompileStep(1)
    \/ FsStep(1)
    \/ crash(1)

SpecRuns == InitEngine /\ [][NextRuns]_vars

(***************************************************************************)
(* init.rs: init::run.                                                     *)
(***************************************************************************)
\* wm init, up to create_directories: an error when .wm/ exists
\* an init that does not test is_initialized
start_init_force(p, env) ==
    /\ AtMain(p)
    /\ Begin(p, "init", "none", env, "none")
    /\ IF var_is_ok(env) THEN main_disabled(p)
       ELSE /\ pc' = [pc EXCEPT ![p] = "init_dirs"]
            /\ outcome' = [outcome EXCEPT ![p] = Running]
    /\ UNCHANGED <<files, initialized, transcript, wr, hist>>

start_init(p, env) ==
    /\ AtMain(p)
    /\ Begin(p, "init", "none", env,
             IF ~var_is_ok(env) /\ initialized THEN "AlreadyInitialized" ELSE "none")
    /\ IF var_is_ok(env) THEN main_disabled(p)
       ELSE IF initialized THEN ReturnWith(p, Running, "AlreadyInitialized")
       ELSE /\ pc' = [pc EXCEPT ![p] = "init_dirs"]
            /\ outcome' = [outcome EXCEPT ![p] = Running]
    /\ UNCHANGED <<files, initialized, transcript, wr, hist>>

\* create_directories succeeds; then write_state(&state), up to its fs::write,
\* for the initial state
init_dirs(p) ==
    /\ pc[p] = "init_dirs"
    /\ initialized' = TRUE
    /\ loc' = [loc EXCEPT ![p].arg = InitialState(Now)]
    /\ wr' = [wr EXCEPT ![p] =
                 FsWriteCall(tmp_path, Blocks(StateToJson(InitialState(Now))),
                             "ws_rename", "propagate", "StateWrite")]
    /\ pc' = [pc EXCEPT ![p] = "fs_open"]
    /\ UNCHANGED <<files, transcript, outcome, hist>>

\* create_directories fails, before or after .wm/ itself was made
init_dirs_fail(p) ==
    /\ pc[p] = "init_dirs"
    /\ initialized' \in BOOLEAN
    /\ loc' = [loc EXCEPT ![p].hit = "CreateDirs"]
    /\ Return(p, "CreateDirs")
    /\ UNCHANGED <<files, transcript, wr, hist>>

\* state::write_nodes(&nodes)
init_nodes(p) ==
    /\ pc[p] = "init_nodes"
    /\ wr' = [wr EXCEPT ![p] =
                 FsWriteCall(NODES_FILE, Blocks("nodes"), "init_working_set",
                             "propagate", "NodesWrite")]
    /\ pc' = [pc EXCEPT ![p] = "fs_open"]
    /\ UNCHANGED <<files, initialized, transcript, loc, outcome, hist>>

\* state::write_working_set("# Working Memory ...")
init_working_set(p) ==
    /\ pc[p] = "init_working_set"
    /\ wr' = [wr EXCEPT ![p] =
                 FsWriteCall(WORKING_SET_FILE, Text("w0"), "init_config",
                             "propagate", "WorkingSetWrite")]
    /\ pc' = [pc EXCEPT ![p] = "fs_open"]
    /\ UNCHANGED <<files, initialized, transcript, loc, outcome, hist>>

\* create_default_config()
init_config(p) ==
    /\ pc[p] = "init_config"
    /\ wr' = [wr EXCEPT ![p] =
                 FsWriteCall(CONFIG_FILE, Blocks("config"), "init_done",
                             "propagate", "ConfigWrite")]
    /\ pc' = [pc EXCEPT ![p] = "fs_open"]
    /\ UNCHANGED <<files, initialized, transcript, loc, outcome, hist>>

\* println!("Initialized .wm/ in current directory") and the list of files; Ok(())
init_done(p) ==
    /\ pc[p] = "init_done"
    /\ ReturnWith(p, println(outcome[p], "text", "Initialized .wm/"), "Ok")
    /\ UNCHANGED <<files, initialized, transcript, loc, wr, hist>>

InitStep(p, Envs) ==
    \/ \E env \in Envs : start_init(p, env)
    \/ init_dirs(p)
    \/ init_dirs_fail(p)
    \/ write_state_rename(p)
    \/ init_nodes(p)
    \/ init_working_set(p)
    \/ init_config(p)
    \/ init_done(p)

(***************************************************************************)
(* show.rs: show::run.                                                     *)
(***************************************************************************)
ShowTargets == {"state", "working", "nodes", "conflicts", "other"}

\* what show_state prints of a State: the project id, the update time, the last
\* extraction ("never" when there is none), the numbers of items and conflicts
ShowReport(s) ==
    [project_id |-> s.project_id,
     updated_at |-> s.updated_at,
     last_extraction |-> IF s.checkpoint.last_extraction = None THEN <<"never">>
                         ELSE <<"at", s.checkpoint.last_extraction[1]>>,
     items |-> Len(s.items),
     conflicts |-> Len(s.conflicts)]

ShowErr(e) == [result |-> e, lines |-> <<>>]

ShowOk(kind, body) == [result |-> "Ok", lines |-> <<Line(kind, body)>>]

\* show_state and show_conflicts: state::read_state(), which fails on an I/O
\* error other than NotFound and on a content that is not a State
show_state(what, f, ioerr) ==
    LET r == read_state_value(f, Now)
    IN IF ioerr THEN ShowErr("StateIO")
       ELSE IF r.kind = "err" THEN ShowErr("StateInvalid")
       ELSE IF what = "state" THEN ShowOk("state", ShowReport(r.val))
       ELSE ShowOk("conflicts", Len(r.val.conflicts))

\* show_working: state::read_working_set()
show_working(f, ioerr) ==
    IF ioerr THEN ShowErr("WorkingSetRead")
    ELSE IF ~f.ex THEN ShowOk("text", "No working set compiled yet")
    ELSE ShowOk("working", f.data)

\* show_nodes: state::read_nodes(), the default vocabulary when there is no file
show_nodes(f, ioerr) ==
    IF ioerr THEN ShowErr("NodesRead")
    ELSE IF ~f.ex THEN ShowOk("nodes", "default")
    ELSE IF ParseJson(f.data) = None THEN ShowErr("NodesRead")
    ELSE ShowOk("nodes", ParseJson(f.data)[1])

\* show::run(what): the target is matched first, then each target checks .wm/
show_run(what, ioerr) ==
    IF what = "other" THEN ShowErr("UnknownTarget")
    ELSE IF ~initialized THEN ShowErr("NotInitialized")
    ELSE IF what \in {"state", "conflicts"} THEN show_state(what, files[STATE_FILE], ioerr)
    ELSE IF what = "working" THEN show_working(files[WORKING_SET_FILE], ioerr)
    ELSE show_nodes(files[NODES_FILE], ioerr)

\* wm show <what>, with or without an I/O error on the file it reads
show(p, what, env, ioerr) ==
    /\ AtMain(p)
    /\ IF var_is_ok(env)
       THEN /\ loc' = [loc EXCEPT ![p] =
                          [BeginLoc(p, "show", "none", env, "none") EXCEPT !.arg = what]]
            /\ main_disabled(p)
       ELSE LET r == show_run(what, ioerr)
            IN /\ loc' = [loc EXCEPT ![p] =
                             [BeginLoc(p, "show", "none", env,
                                       IF r.result = "Ok" THEN "none" ELSE r.result)
                                 EXCEPT !.arg = what]]
               /\ ReturnWith(p, [Running EXCEPT !.stdout = r.lines], r.result)
    /\ UNCHANGED <<files, initialized, transcript, wr, hist>>

(***************************************************************************)
(* SpecEntry: a command of the engine, whichever, started with any         *)
(* WM_DISABLED in a fresh directory, in a directory where wm init has run  *)
(* (to its end or not), or in a project with or without knowledge whose    *)
(* state.json is anything writers of the aggregate can leave.  A write may *)
(* fail; the transcript has one line.                                      *)
(***************************************************************************)
\* the contents of state.json: none, whole, and what a writer whose temporary
\* file was truncated by another writer renames into place (SpecStoreConc)
StoreFiles ==
    {Absent, Committed(InitialState(1))} \cup
    {[ex |-> TRUE, data |-> SubSeq(Blocks(StateToJson(InitialState(1))), 1, n)] :
        n \in 0..(NumBlocks - 1)}

\* what the oracle does in SpecEntry: a text of knowledge, or a non-zero exit
EntryResults ==
    {[err |-> "Ok", text |-> Text("k1")], [err |-> "OracleExit", text |-> <<>>]}

InitEntry ==
    /\ initialized \in BOOLEAN
    /\ \E f \in StoreFiles, k \in {Absent, [ex |-> TRUE, data |-> Text("k1")]} :
          /\ files = IF initialized
                     THEN [AfterInit EXCEPT ![STATE_FILE] = f, ![STATE_MD] = k]
                     ELSE [n \in FileNames |-> Absent]
          /\ ~initialized => f = Absent /\ k = Absent
    /\ transcript = <<"nl">>
    /\ pc = [p \in Procs |-> "idle"]
    /\ loc = [p \in Procs |-> NoLoc]
    /\ wr = [p \in Procs |-> NoWrite]
    /\ outcome = [p \in Procs |-> NoOutcome]
    /\ hist = NoHist

\* no command other than wm init has been started in the directory
OnlyInit == loc[1].cmd \in {"none", "init"}

NextEntry ==
    \/ OnlyInit /\ InitStep(1, EnvValues)
    \/ /\ OnlyInit
       /\ \E what \in ShowTargets, env \in EnvValues, ioerr \in BOOLEAN :
             show(1, what, env, ioerr)
    \/ OnlyInit /\ ExtractStart(1, EnvValues)
    \/ ExtractBody(1, EntryResults)
    \/ OnlyInit /\ CompileStart(1, EnvValues)
    \/ CompileBody(1, EntryResults)
    \/ FsStep(1)

SpecEntry == InitEntry /\ [][NextEntry]_vars

(***************************************************************************)
(* The knowledge store: claims C3, C4 and C6.                              *)
(***************************************************************************)
\* C3: a write_state that fails or dies at any point before its rename leaves
\* the aggregate file byte-identical to the last committed version (no file, when
\* none was committed), and a read_state after it returns that version.
C3_InterruptedWriteKeepsCommitted ==
    /\ files[STATE_FILE] =
           (IF hist.committed = None THEN Absent ELSE Committed(hist.committed[1]))
    /\ loc[1].ret.kind # "none" =>
           /\ loc[1].ret.kind = "ok"
           /\ IF hist.committed = None
              THEN \E now \in Times : loc[1].ret.val = DefaultState(now)
              ELSE loc[1].ret.val = hist.committed[1]

\* a write died with its temporary file fully written, and the read_state after
\* it returned the version committed before, which is not the one being written
C3_Witness ==
    /\ hist.crashedAt = "ws_rename"
    /\ hist.committed # None
    /\ hist.interrupted # None
    /\ hist.interrupted # hist.committed
    /\ files[tmp_path] = Committed(hist.interrupted[1])
    /\ pc[1] = "idle"
    /\ loc[1].cmd = "read_state"
    /\ loc[1].ret.val = hist.committed[1]

\* C4: with two processes in write_state at once, the aggregate file is at every
\* moment absent or one whole aggregate that one of them wrote.
C4_NeverTornAggregate ==
    files[STATE_FILE].ex =>
        /\ IsWhole(files[STATE_FILE].data)
        /\ \E s \in SmallAggs : files[STATE_FILE] = Committed(s)

IsExtraction(cmd) == cmd \in {"extract", "hook_extract"}

\* the command of process p has run to its end: main returned an exit code
Finished(p) == pc[p] = "idle" /\ outcome[p].exit \in {"success", "failure"}

\* the one line a no-op extraction prints
NoNewContent == <<Line("text", "No new transcript content")>>

\* C1: when an extraction run reads the transcript with the checkpoint offset at
\* or beyond the transcript's length, the run ends there with success: it has not
\* called the oracle and every file (state.md, checkpoint.json, the aggregate) is
\* as it was when the run started.
C1_EmptySliceIsNoOp ==
    [][(/\ pc[1] = "ex_read_tr"
        /\ pc'[1] # "ex_read_tr"
        /\ loc'[1].hit = "none"
        /\ outcome'[1].exit # "crashed"
        /\ loc[1].cp >= Len(transcript))
       => (/\ pc'[1] = "idle"
           /\ outcome'[1].exit = "success"
           /\ outcome'[1].stderr = <<>>
           /\ ~loc'[1].called
           /\ files' = files
           /\ files' = loc[1].snap)]_vars

\* a second run after a successful one, with no growth in between: it has
\* printed the no-op line, and checkpoint and state.md are those of the first run
C1_Witness ==
    /\ Finished(1)
    /\ loc[1].cmd = "extract"
    /\ outcome[1].exit = "success"
    /\ outcome[1].stdout = NoNewContent
    /\ ~loc[1].called
    /\ Len(transcript) = 2
    /\ loc[1].cp = 2
    /\ read_checkpoint(files[CHECKPOINT_FILE]) = 2
    /\ files[STATE_MD] = [ex |-> TRUE, data |-> Text("k1")]
    /\ files = loc[1].snap

\* C2: at the end of every extraction run that returned (with success, as a
\* no-op or with an error), the offset read from the checkpoint is at least the
\* offset that could be read when the run started.
C2_CheckpointMonotone ==
    (Finished(1) /\ IsExtraction(loc[1].cmd))
        => read_checkpoint(files[CHECKPOINT_FILE])
               >= read_checkpoint(loc[1].snap[CHECKPOINT_FILE])

\* C5: state.md holds, at every instant, the whole text of the last completed
\* knowledge write (nothing before the first), so that neither a crash nor a
\* reader ever meets a partly written text.
C5_KnowledgeWriteAtomic == ReadOrDefault(files[STATE_MD]) = hist.knowledge

\* C7: a hook-compile run on an initialized project with knowledge whose oracle
\* call failed ends with exit code success, nothing on stderr, and exactly one
\* line on stdout: a JSON object without the additionalContext field.
C7_HookCompileFailsOpen ==
    (/\ Finished(1)
     /\ loc[1].cmd = "hook_compile"
     /\ loc[1].hit \in OracleErrors)
        => /\ outcome[1].exit = "success"
           /\ outcome[1].stderr = <<>>
           /\ Len(outcome[1].stdout) = 1
           /\ outcome[1].stdout[1].kind = "json"
           /\ "additionalContext" \notin DOMAIN outcome[1].stdout[1].body

C7_Witness ==
    /\ Finished(1)
    /\ loc[1].cmd = "hook_compile"
    /\ loc[1].hit = "OracleNoResult"
    /\ ~IsBlank(loc[1].cur)
    /\ outcome[1] = [exit |-> "success", result |-> "Ok",
                     stdout |-> <<Line("json", EmptyObj)>>, stderr |-> <<>>]
    /\ files[WORKING_SET_FILE] = [ex |-> TRUE, data |-> <<>>]

\* C9: a hook-triggered extraction run that returned has exit code success and
\* has printed nothing on stderr, whatever failed inside it.
C9_HookExtractNeverFailsVisibly ==
    (Finished(1) /\ loc[1].cmd = "hook_extract")
        => outcome[1].exit = "success" /\ outcome[1].stderr = <<>>

\* the errors of a direct run that come before its first write
ErrorsBeforeWrite ==
    {"TranscriptNotFound", "OracleSpawn", "OracleExit", "OracleNotJson", "OracleNoResult"}

\* C10: a direct extraction or compilation run that hit "transcript not found",
\* an oracle spawn failure, a non-zero oracle exit, or an oracle response that is
\* not JSON or has no string "result", ends with exit code failure, that error
\* reported, and every file as it was when the run started.
C10_DirectRunFailsWithoutWriting ==
    (/\ Finished(1)
     /\ loc[1].cmd \in {"extract", "compile"}
     /\ loc[1].hit \in ErrorsBeforeWrite)
        => /\ outcome[1].exit = "failure"
           /\ outcome[1].result = loc[1].hit
           /\ outcome[1].stderr = <<loc[1].hit>>
           /\ files = loc[1].snap

\* a direct extraction with new content whose oracle exits non-zero, after an
\* earlier run wrote knowledge and checkpoint
C10_Witness ==
    /\ Finished(1)
    /\ loc[1].cmd = "extract"
    /\ loc[1].hit = "OracleExit"
    /\ loc[1].called
    /\ loc[1].slice # <<>>
    /\ outcome[1].exit = "failure"
    /\ files[STATE_MD] = [ex |-> TRUE, data |-> Text("k1")]
    /\ read_checkpoint(files[CHECKPOINT_FILE]) = 1
    /\ Len(transcript) = 2
    /\ files = loc[1].snap

\* C11: WM_DISABLED, set before an oracle call, is set in a live process only
\* while that call is in progress: once call_generative_extraction or
\* compile_with_llm has returned, with a result or with any error, it is not set.
C11_FlagClearedAfterCall ==
    (loc[1].wm_disabled /\ outcome[1].exit # "crashed")
        => pc[1] \in {"ex_wait", "co_wait"}

\* C13: the checkpoint a successful extraction run leaves is not beyond the end
\* of the slice that run gave to the oracle: bytes appended after the slice was
\* read stay ahead of the checkpoint, for the next run to read.
C13_NoTranscriptLoss ==
    (/\ Finished(1)
     /\ IsExtraction(loc[1].cmd)
     /\ outcome[1].exit = "success"
     /\ loc[1].called)
        => read_checkpoint(files[CHECKPOINT_FILE]) <= loc[1].read_end

\* the points of an extraction run after its write of state.md and before the
\* end of its write of the checkpoint
BetweenWrites == {<<"ex_metadata", "none">>, <<"fs::write", CHECKPOINT_FILE>>}

\* C14: after an extraction run died between its write of the new knowledge
\* and the end of its write of the checkpoint, the checkpoint holds the offset
\* it held when the run started, so that the next run starts its slice there.
C14_CrashKeepsOldCheckpoint ==
    (/\ pc[1] = "idle"
     /\ outcome[1].exit = "crashed"
     /\ IsExtraction(loc[1].cmd)
     /\ loc[1].at \in BetweenWrites)
        => /\ read_checkpoint(files[CHECKPOINT_FILE]) = loc[1].cp
           /\ read_checkpoint(files[CHECKPOINT_FILE])
                  = read_checkpoint(loc[1].snap[CHECKPOINT_FILE])

\* C15: an extraction run that starts right after an extraction that consumed
\* a non-empty slice with success, with no byte appended to the transcript since
\* that earlier run started, reads an empty slice: it ends with success without
\* calling the oracle, and state.md and the checkpoint are as it found them.
C15_RerunIsNoOp ==
    [][(/\ pc[1] = "ex_read_tr"
        /\ pc'[1] # "ex_read_tr"
        /\ loc[1].follows
        /\ ~loc[1].grown
        /\ loc'[1].hit = "none"
        /\ outcome'[1].exit # "crashed")
       => (/\ loc'[1].slice = <<>>
           /\ pc'[1] = "idle"
           /\ outcome'[1].exit = "success"
           /\ ~loc'[1].called
           /\ files' = loc[1].snap)]_vars

\* the second run has ended as a no-op on the knowledge and checkpoint the first
\* run wrote from a slice of two bytes
C15_Witness ==
    /\ Finished(1)
    /\ loc[1].cmd = "hook_extract"
    /\ loc[1].follows
    /\ ~loc[1].grown
    /\ outcome[1].exit = "success"
    /\ outcome[1].stdout = NoNewContent
    /\ ~loc[1].called
    /\ loc[1].cp = 2
    /\ Len(transcript) = 2
    /\ files[STATE_MD] = [ex |-> TRUE, data |-> Text("k2")]
    /\ files = loc[1].snap

\* C16: every hook-compile run that was not disabled by the environment ends
\* with exit code success and exactly one line on stdout, a JSON object, whether
\* the project is initialized or not, with or without knowledge, and whatever
\* the oracle did.
C16_HookCompileOneJsonLine ==
    (/\ Finished(1)
     /\ loc[1].cmd = "hook_compile"
     /\ ~var_is_ok(loc[1].env))
        => /\ outcome[1].exit = "success"
           /\ Len(outcome[1].stdout) = 1
           /\ outcome[1].stdout[1].kind = "json"

\* C21: a compile or hook compile command, at every point of its run and
\* whatever its result, has left every file but the working set as it was
\* when the command started: the knowledge, the aggregate and the checkpoint
\* are unchanged.
C21_CompileWritesOnlyWorkingSet ==
    loc[1].cmd \in {"compile", "hook_compile"}
        => \A n \in FileNames \ {WORKING_SET_FILE} : files[n] = loc[1].snap[n]

\* a compile command called the oracle, wrote a new working set and returned
C21_Witness ==
    /\ Finished(1)
    /\ loc[1].cmd = "compile"
    /\ loc[1].called
    /\ outcome[1].exit = "success"
    /\ files[WORKING_SET_FILE] # loc[1].snap[WORKING_SET_FILE]
    /\ files[WORKING_SET_FILE].data = loc[1].new

InitStartsInitialized ==
    /\ initialized
    /\ pc[1] = "idle"
    /\ loc'[1].cmd = "init"
    /\ ~var_is_ok(loc'[1].env)
    /\ vars' # vars

\* C28: wm init in a project that is already initialized returns at once with
\* the error "Already initialized" and leaves every file of .wm/ as it was.
C28_InitKeepsExisting ==
    [][InitStartsInitialized
         => /\ pc'[1] = "idle"
            /\ outcome'[1].exit = "failure"
            /\ outcome'[1].result = "AlreadyInitialized"
            /\ outcome'[1].stdout = <<>>
            /\ files' = files
            /\ initialized']_vars

\* wm init has failed in a project that holds knowledge, which is still there
C28_Witness ==
    /\ Finished(1)
    /\ loc[1].cmd = "init"
    /\ loc[1].hit = "AlreadyInitialized"
    /\ outcome[1].exit = "failure"
    /\ files[STATE_MD] = [ex |-> TRUE, data |-> Text("k1")]
    /\ files = loc[1].snap

(***************************************************************************)
(* SpecChildren: a command of process 1 and the engine process 2 that it   *)
(* brings about: the child that run_background spawns, or an engine        *)
(* started below an oracle call while process 1 waits for it.              *)
(* Claims C19 and C20.                                                     *)
(***************************************************************************)
\* Command::env("WM_DISABLED", ""): the variable in the environment of the
\* child of run_background, whatever it is in the parent
background_env(env) == "empty"

\* extract::run with background = true: run_background spawns the same
\* executable as process c with the arguments extract [--transcript path] and
\* returns Ok at once; spawned is false when current_exe or spawn fails
start_extract_background(p, c, explicit_path, env, spawned) ==
    /\ AtMain(p)
    /\ pc[c] = "idle"
    /\ LET entry == IF var_is_ok(env) THEN "Disabled"
                    ELSE IF ~initialized THEN "NotInitialized"
                    ELSE IF ~spawned THEN "SpawnFailed"
                    ELSE "Ok"
       IN /\ loc' = [loc EXCEPT
                        ![p] = [BeginLoc(p, "extract", "none", env, EntryError(entry))
                                   EXCEPT !.arg = "background"],
                        ![c] = IF entry = "Ok"
                               THEN [NoLoc EXCEPT !.env = background_env(env),
                                                  !.origin = "background",
                                                  !.arg = explicit_path]
                               ELSE @]
          /\ pc' = [pc EXCEPT ![p] = "idle",
                              ![c] = IF entry = "Ok" THEN "spawned" ELSE @]
          /\ outcome' = [outcome EXCEPT ![p] =
                            IF entry = "Disabled" THEN [Running EXCEPT !.exit = "success"]
                            ELSE main_exit(Running, entry)]
    /\ UNCHANGED <<files, initialized, transcript, wr, hist>>

\* the child of run_background enters main as wm extract [--transcript path]
background_child(c) ==
    /\ pc[c] = "spawned"
    /\ loc[c].origin = "background"
    /\ \E discovered \in BOOLEAN :
          start_extract(c, loc[c].arg, discovered, loc[c].env)

\* an oracle process that gets the environment the command was started with
oracle_env_unchanged(p) == loc[p].env

\* std::env::set_var("WM_DISABLED", "1") before Command::new("claude"): the
\* variable in the environment that the oracle process of p inherits
oracle_env(p) == IF loc[p].wm_disabled THEN "1" ELSE loc[p].env

\* while p waits for the oracle, the oracle (or a process below it) starts the
\* engine as process c: with the environment it inherited, or with one from
\* which WM_DISABLED was removed
oracle_spawn_engine(p, c, inherits) ==
    /\ pc[p] \in {"ex_wait", "co_wait"}
    /\ pc[c] = "idle"
    /\ loc[c].cmd = "none"
    /\ loc' = [loc EXCEPT ![c] =
                  [NoLoc EXCEPT !.env = IF inherits THEN oracle_env(p) ELSE "unset",
                                !.origin = IF inherits THEN "oracle" ELSE "scrubbed"]]
    /\ pc' = [pc EXCEPT ![c] = "spawned"]
    /\ UNCHANGED <<files, initialized, transcript, wr, outcome, hist>>

\* an engine started below the oracle enters main with some command
oracle_child(c) ==
    /\ pc[c] = "spawned"
    /\ loc[c].origin \in {"oracle", "scrubbed"}
    /\ \/ ExtractStart(c, {loc[c].env})
       \/ CompileStart(c, {loc[c].env})
       \/ start_init(c, loc[c].env)
       \/ \E what \in ShowTargets : show(c, what, loc[c].env, FALSE)

\* the transcript of the runs with children: one line
ChildTranscript == <<"a", "nl">>

InitChildren ==
    /\ initialized = TRUE
    /\ \E k \in {Absent, [ex |-> TRUE, data |-> Text("k1")]} :
          files = [AfterInit EXCEPT ![STATE_MD] = k]
    /\ transcript = ChildTranscript
    /\ pc = [p \in Procs |-> "idle"]
    /\ loc = [p \in Procs |-> NoLoc]
    /\ wr = [p \in Procs |-> NoWrite]
    /\ outcome = [p \in Procs |-> NoOutcome]
    /\ hist = NoHist

\* process 1 has not run a command yet
Fresh == loc[1].cmd = "none" /\ loc[2].cmd = "none" /\ pc[2] = "idle"

NextChildren ==
    \/ /\ Fresh
       /\ \E path \in TranscriptArgs, spawned \in BOOLEAN :
             start_extract_background(1, 2, path, "unset", spawned)
    \/ Fresh /\ ExtractStart(1, {"unset"})
    \/ Fresh /\ CompileStart(1, {"unset"})
    \/ ExtractBody(1, EntryResults)
    \/ CompileBody(1, EntryResults)
    \/ \E inherits \in BOOLEAN : oracle_spawn_engine(1, 2, inherits)
    \/ background_child(2)
    \/ oracle_child(2)
    \/ ExtractBody(2, EntryResults)
    \/ CompileBody(2, EntryResults)
    \/ FsStep(1)
    \/ FsStep(2)

SpecChildren == InitChildren /\ [][NextChildren]_vars

\* C19: the child that run_background spawned, run to its end without an
\* error in an initialized project whose transcript has content past the
\* checkpoint, has called the oracle, has written the knowledge and has
\* advanced the checkpoint, as a foreground run does; and the parent returned
\* with success.
C19_BackgroundExtracts ==
    (/\ loc[2].origin = "background"
     /\ Finished(2)
     /\ loc[2].hit = "none"
     /\ read_checkpoint(loc[2].snap[CHECKPOINT_FILE]) < Len(transcript))
        => /\ loc[2].called
           /\ outcome[2].exit = "success"
           /\ ReadOrDefault(files[STATE_MD]) = loc[2].new
           /\ read_checkpoint(files[CHECKPOINT_FILE]) = Len(transcript)
           /\ outcome[1].exit = "success"

\* C20: an engine started below an oracle call with the environment of the
\* call never gets past the entry of main: it calls no oracle, starts no
\* write, prints nothing, and its command exits with success.
C20_OracleCallsNeverNest ==
    loc[2].origin = "oracle"
        => /\ pc[2] \in {"idle", "spawned"}
           /\ ~loc[2].called
           /\ wr[2] = NoWrite
           /\ outcome[2].stdout = <<>>
           /\ outcome[2].stderr = <<>>
           /\ loc[2].cmd # "none" => (outcome[2].exit = "success" /\ loc[2].hit = "none")

\* an engine started below the oracle call of a compilation, with the
\* environment of the call, has returned while the call is still in progress
C20_Witness ==
    /\ loc[2].origin = "oracle"
    /\ loc[2].cmd = "hook_compile"
    /\ Finished(2)
    /\ pc[1] = "co_wait"
    /\ loc[1].wm_disabled

(***************************************************************************)
(* SpecRace: two processes each run one extraction in the same project,    *)
(* without I/O errors, while the log writer appends lines to the           *)
(* transcript. Claims C22 and C23.                                         *)
(***************************************************************************)
\* what the oracle gives to the runs: one of two texts
RaceResults == {[err |-> "Ok", text |-> Text(t)] : t \in {"k1", "k2"}}

InitRace ==
    /\ initialized = TRUE
    /\ files = AfterInit
    /\ transcript = <<"nl">>
    /\ pc = [p \in Procs |-> "idle"]
    /\ loc = [p \in Procs |-> NoLoc]
    /\ wr = [p \in Procs |-> NoWrite]
    /\ outcome = [p \in Procs |-> NoOutcome]
    /\ hist = NoHist

\* one step of the extraction of p, which is the one command p runs
RaceStep(p) ==
    \/ loc[p].cmd = "none" /\ start_extract(p, "transcript", TRUE, "unset")
    \/ extract_read_state(p)
    \/ extract_read_checkpoint(p)
    \/ extract_read_transcript(p)
    \/ extract_oracle_spawn(p)
    \/ \E r \in RaceResults : extract_oracle_return(p, r)
    \/ extract_metadata(p)
    \/ extract_done(p)
    \/ fs_write_open(p)
    \/ fs_write_block(p)

NextRace ==
    \/ \E p \in Procs : RaceStep(p)
    \/ append_transcript({"nl"})

SpecRace == InitRace /\ [][NextRace]_vars

\* both runs read the same knowledge and the same checkpoint, called the
\* oracle, and returned with success
BothExtracted ==
    /\ \A p \in Procs : Finished(p) /\ loc[p].called /\ outcome[p].exit = "success"
    /\ loc[1].cur = loc[2].cur
    /\ loc[1].cp = loc[2].cp

\* C22: after two extraction runs that read the same knowledge and checkpoint
\* have both completed, state.md is the whole text that the oracle gave to one
\* of the two, never a mixture of the two texts.
C22_LastWriterWinsWhole ==
    BothExtracted => ReadOrDefault(files[STATE_MD]) \in {loc[1].new, loc[2].new}

\* C23: every write of the checkpoint stores an offset that is at least the
\* offset the checkpoint holds when the write starts.
C23_CheckpointNeverDecreases ==
    \A p \in Procs :
        (pc[p] = "fs_open" /\ wr[p].name = CHECKPOINT_FILE)
            => read_checkpoint([ex |-> TRUE, data |-> wr[p].buf])
                   >= read_checkpoint(files[CHECKPOINT_FILE])

(***************************************************************************)
(* SpecIntent: the intent of hook compile, read from standard input.       *)
(* A text is a sequence of pieces: white space, a word that is not JSON,   *)
(* or one JSON document. Claim C25.                                        *)
(***************************************************************************)
MaxPieces == 3

Space == [kind |-> "sp", shape |-> "none", prompt |-> ""]
Word == [kind |-> "word", shape |-> "none", prompt |-> ""]

\* JSON documents: an object with a string "prompt", an object whose "prompt"
\* is not a string, an object without "prompt", and a value that is no object
JsonDocs ==
    {[kind |-> "json", shape |-> "prompt_str", prompt |-> s] : s \in {"p1", ""}}
    \cup {[kind |-> "json", shape |-> s, prompt |-> ""] :
              s \in {"prompt_other", "no_prompt", "array"}}

Pieces == {Space, Word} \cup JsonDocs

\* what io::stdin().read_to_string(&mut buffer) meets: an error, or a text
Stdins ==
    {[ok |-> FALSE, buffer |-> <<>>]}
    \cup {[ok |-> TRUE, buffer |-> b] : b \in SeqsUpTo(Pieces, MaxPieces)}

\* str::trim
trim(text) ==
    LET solid == {i \in 1..Len(text) : text[i] # Space}
    IN IF solid = {} THEN <<>>
       ELSE SubSeq(text, CHOOSE i \in solid : \A j \in solid : i <= j,
                         CHOOSE i \in solid : \A j \in solid : j <= i)

\* serde_json::from_str::<Value>: one document, white space around it allowed
from_str(text) ==
    IF Len(trim(text)) = 1 /\ trim(text)[1].kind = "json" THEN Some(trim(text)[1])
    ELSE None

\* json.get("prompt").and_then(|v| v.as_str())
get_prompt(json) == IF json.shape = "prompt_str" THEN Some(json.prompt) ELSE None

IntentOf(tag, prompt, raw) == [tag |-> tag, prompt |-> prompt, raw |-> raw]

\* a read_hook_intent that keeps the input as it is when it is no hook request
read_hook_intent_verbatim(stdin) ==
    IF stdin.ok /\ trim(stdin.buffer) # <<>>
    THEN IF from_str(stdin.buffer) # None /\ get_prompt(from_str(stdin.buffer)[1]) # None
         THEN Some(IntentOf("prompt", get_prompt(from_str(stdin.buffer)[1])[1], <<>>))
         ELSE Some(IntentOf("raw", "", stdin.buffer))
    ELSE None

read_hook_intent(stdin) ==
    IF stdin.ok /\ trim(stdin.buffer) # <<>>
    THEN IF from_str(stdin.buffer) # None /\ get_prompt(from_str(stdin.buffer)[1]) # None
         THEN Some(IntentOf("prompt", get_prompt(from_str(stdin.buffer)[1])[1], <<>>))
         ELSE Some(IntentOf("raw", "", trim(stdin.buffer)))
    ELSE None

\* compile_with_llm: intent.unwrap_or("general coding task")
intent_text(intent) ==
    IF intent = None THEN IntentOf("fallback", "general coding task", <<>>)
    ELSE intent[1]

\* run_hook: let intent = read_hook_intent(), and the intent text of the
\* oracle call it leads to
hook_intent(p, stdin) ==
    /\ loc[p].cmd = "none"
    /\ loc' = [loc EXCEPT ![p] =
                  [NoLoc EXCEPT !.cmd = "hook_compile", !.arg = stdin,
                                !.ret = [kind |-> "intent",
                                         val |-> intent_text(read_hook_intent(stdin))]]]
    /\ UNCHANGED <<files, initialized, transcript, pc, wr, outcome, hist>>

NextIntent == \E stdin \in Stdins : hook_intent(1, stdin)

SpecIntent == InitRace /\ [][NextIntent]_vars

\* C25: when standard input is one JSON object with a string "prompt", the
\* intent is that prompt; when it is readable and not empty but is no such
\* object, the intent is the input text as it is; when it is empty or cannot
\* be read, the intent is "general coding task".
C25_HookIntent ==
    loc[1].ret.kind = "intent" =>
        LET stdin == loc[1].arg
            intent == loc[1].ret.val
        IN IF ~stdin.ok \/ stdin.buffer = <<>>
           THEN intent.tag = "fallback" /\ intent.prompt = "general coding task"
           ELSE IF from_str(stdin.buffer) # None
                   /\ from_str(stdin.buffer)[1].shape = "prompt_str"
           THEN intent.tag = "prompt" /\ intent.prompt = from_str(stdin.buffer)[1].prompt
           ELSE intent.tag = "raw" /\ intent.raw = stdin.buffer

\* C25, amended: the intent is the prompt of a JSON object with a string
\* "prompt"; for any other readable input it is the input text without the
\* white space around it; and it is "general coding task" when the input
\* cannot be read or holds nothing but white space.
C25_HookIntentTrimmed ==
    loc[1].ret.kind = "intent" =>
        LET stdin == loc[1].arg
            intent == loc[1].ret.val
        IN IF ~stdin.ok \/ trim(stdin.buffer) = <<>>
           THEN intent.tag = "fallback" /\ intent.prompt = "general coding task"
           ELSE IF from_str(stdin.buffer) # None
                   /\ from_str(stdin.buffer)[1].shape = "prompt_str"
           THEN intent.tag = "prompt" /\ intent.prompt = from_str(stdin.buffer)[1].prompt
           ELSE intent.tag = "raw" /\ intent.raw = trim(stdin.buffer)

\* the input was a word with white space before it, and became the intent
C25_Witness ==
    /\ loc[1].ret.kind = "intent"
    /\ loc[1].arg.buffer = <<Space, Word>>
    /\ loc[1].ret.val = IntentOf("raw", "", <<Word>>)

(***************************************************************************)
(* SpecTail: extraction runs of one process in an initialized project,     *)
(* while the log writer appends to the transcript byte by byte, so that    *)
(* its last line can be without its newline when a run reads it. Claim C18.*)
(***************************************************************************)
InitTail ==
    /\ initialized = TRUE
    /\ files = AfterInit
    /\ transcript = <<>>
    /\ pc = [p \in Procs |-> "idle"]
    /\ loc = [p \in Procs |-> NoLoc]
    /\ wr = [p \in Procs |-> NoWrite]
    /\ outcome = [p \in Procs |-> NoOutcome]
    /\ hist = [NoHist EXCEPT !.pipeline = "extract"]

NextTail ==
    \/ ExtractStart(1, {"unset"})
    \/ ExtractBody(1, EntryResults)
    \/ append_transcript(Bytes)
    \/ FsStep(1)

SpecTail == InitTail /\ [][NextTail]_vars

\* the newline-terminated lines of the bytes rest: its longest prefix that
\* ends with a newline
CompleteLines(rest) ==
    LET ends == {i \in 1..Len(rest) : rest[i] = "nl"}
    IN IF ends = {} THEN <<>>
       ELSE SubSeq(rest, 1, CHOOSE i \in ends : \A j \in ends : j <= i)

\* C18: the slice that an extraction run gives to the oracle is made of the
\* newline-terminated lines of the transcript from the checkpoint to the end
\* of the read: a last line that has no newline yet is not in it.
C18_SliceOnlyCompleteLines ==
    (IsExtraction(loc[1].cmd) /\ loc[1].called)
        => loc[1].slice =
               CompleteLines(SubSeq(transcript, loc[1].cp + 1, loc[1].read_end))

\* an extraction run consumed a slice and returned with success
Extracted ==
    /\ Finished(1)
    /\ IsExtraction(loc[1].cmd)
    /\ loc[1].called
    /\ outcome[1].exit = "success"

\* C24: after an extraction run that consumed a slice with success, the
\* state that read_state returns holds a checkpoint with the offset of
\* checkpoint.json and a last extraction time, and show state does not report
\* "never".
C24_AggregateCheckpointAgrees ==
    Extracted =>
        LET r == read_state_value(files[STATE_FILE], Now)
        IN /\ r.kind = "ok"
           /\ r.val.checkpoint.transcript_position
                  = Some(read_checkpoint(files[CHECKPOINT_FILE]))
           /\ r.val.checkpoint.last_extraction # None
           /\ ShowReport(r.val).last_extraction # <<"never">>

\* the offset in checkpoint.json is not past the end of the transcript, and
\* after a successful extraction it is not before the end of what the run read
OffsetWithinTranscript ==
    /\ read_checkpoint(files[CHECKPOINT_FILE]) <= Len(transcript)
    /\ Extracted => read_checkpoint(files[CHECKPOINT_FILE]) >= loc[1].read_end

\* the offset a run hands to write_checkpoint is the length of the transcript
\* at that step, and it is the offset in checkpoint.json when the write is done
CommitsObservedLength ==
    /\ (pc[1] = "ex_metadata" /\ pc'[1] = "fs_open")
           => read_checkpoint([ex |-> TRUE, data |-> wr'[1].buf]) = Len(transcript)
    /\ (wr[1].name = CHECKPOINT_FILE /\ pc'[1] = "ex_done")
           => read_checkpoint(files'[CHECKPOINT_FILE])
                  = read_checkpoint([ex |-> TRUE, data |-> wr[1].buf])

\* C27: with one extraction process and a transcript that only grows, the
\* offset in checkpoint.json never exceeds the length of the transcript, and
\* the offset a successful run commits is the length of the transcript it
\* observed when it committed.
C27_CheckpointWithinTranscript ==
    [](OffsetWithinTranscript) /\ [][CommitsObservedLength]_vars

\* a run has committed the length 1, and the transcript has grown since
C27_Witness ==
    /\ Extracted
    /\ read_checkpoint(files[CHECKPOINT_FILE]) = 1
    /\ Len(transcript) = 2

(***************************************************************************)
(* The commands at their entry: claims C12 and C17 (SpecEntry).            *)
(***************************************************************************)
\* C12: a command started with WM_DISABLED present in its environment, whatever
\* its value, is a no-op: it exits with success at once, having printed
\* nothing, called no oracle, met no error and left every file as it was.
C12_DisabledIsNoOp ==
    (loc[1].cmd # "none" /\ EnvPresent(loc[1].env))
        => /\ pc[1] = "idle"
           /\ outcome[1].exit = "success"
           /\ outcome[1].stdout = <<>>
           /\ outcome[1].stderr = <<>>
           /\ ~loc[1].called
           /\ loc[1].hit = "none"
           /\ files = loc[1].snap

\* wm show state has run to its end in an initialized project, not disabled
ShownState ==
    /\ Finished(1)
    /\ loc[1].cmd = "show"
    /\ loc[1].arg = "state"
    /\ ~var_is_ok(loc[1].env)
    /\ loc[1].hit # "NotInitialized"

\* show state printed the report of an aggregate without items, without
\* conflicts and never extracted
ShowsEmpty ==
    /\ outcome[1].exit = "success"
    /\ Len(outcome[1].stdout) = 1
    /\ outcome[1].stdout[1].kind = "state"
    /\ outcome[1].stdout[1].body.items = 0
    /\ outcome[1].stdout[1].body.conflicts = 0
    /\ outcome[1].stdout[1].body.last_extraction = <<"never">>

\* C17: show state, which prints what read_state returns, reports the empty
\* default aggregate with success when there is no state.json; fails, printing
\* no report, when state.json is there but is not a whole State or cannot be
\* read; and reports zero items and "never" on the state.json that init wrote.
C17_ReadStateDefaultOrError ==
    ShownState =>
        IF loc[1].hit = "StateIO"
        THEN outcome[1].exit = "failure" /\ outcome[1].stdout = <<>>
        ELSE IF ~files[STATE_FILE].ex
        THEN ShowsEmpty /\ outcome[1].stdout[1].body.project_id = ""
        ELSE IF ~IsWhole(files[STATE_FILE].data)
        THEN /\ outcome[1].exit = "failure"
             /\ outcome[1].result = "StateInvalid"
             /\ outcome[1].stdout = <<>>
        ELSE ShowsEmpty /\ outcome[1].stdout[1].body.project_id = "proj_1"

\* wm init ran to its end in a fresh directory, then show state reported
C17_Witness ==
    /\ ShownState
    /\ ShowsEmpty
    /\ hist.committed = Some(InitialState(Now))
    /\ files = AfterInit
    /\ loc[1].snap = AfterInit

(***************************************************************************)
(* SpecSessions: two sessions of one initialized project with knowledge,   *)
(* each running its post-submit hook (wm hook compile --session-id <its    *)
(* id>), in any interleaving.  Claim C8.                                   *)
(***************************************************************************)
\* the session whose hook runs in process p
SessionOf(p) == IF p = 1 THEN "s1" ELSE "s2"

\* the texts the oracle compiles for the two sessions
SessionResults == {[err |-> "Ok", text |-> Text(t)] : t \in {"k1", "k2"}}

InitSessions ==
    /\ initialized = TRUE
    /\ files = [AfterInit EXCEPT ![STATE_MD] = [ex |-> TRUE, data |-> Text("k1")]]
    /\ transcript = <<>>
    /\ pc = [p \in Procs |-> "idle"]
    /\ loc = [p \in Procs |-> NoLoc]
    /\ wr = [p \in Procs |-> NoWrite]
    /\ outcome = [p \in Procs |-> NoOutcome]
    /\ hist = [NoHist EXCEPT !.pipeline = "compile", !.knowledge = Text("k1")]

SessionStep(p) ==
    \/ start_hook_compile(p, SessionOf(p), "unset")
    \/ compile_read_state(p)
    \/ compile_oracle_spawn(p)
    \/ \E r \in SessionResults : compile_oracle_return(p, r)
    \/ fs_write_open(p)
    \/ fs_write_block(p)
    \/ compile_done(p)

NextSessions == \E p \in Procs : SessionStep(p)

SpecSessions == InitSessions /\ [][NextSessions]_vars

\* the hook of p has returned, having written the working set it compiled
Compiled(p) ==
    /\ Finished(p)
    /\ loc[p].cmd = "hook_compile"
    /\ loc[p].called
    /\ loc[p].hit = "none"

\* C8: two hook-compile runs with distinct session ids never have the same
\* working-set path open for writing, and the working set read back for a
\* session whose run has returned is the text that run compiled.
C8_SessionsIsolated ==
    \A p \in Procs :
        /\ \A q \in Procs \ {p} :
              (/\ wr[p].name # "none"
               /\ wr[q].name # "none"
               /\ loc[p].sid # loc[q].sid) => wr[p].name # wr[q].name
        /\ Compiled(p) =>
              ReadOrDefault(files[working_set_path(loc[p].sid)]) = loc[p].new

=============================================================================
